---- MODULE Spec2Model ----
(***************************************************************************)
(* A state-machine model of vtkPythonInterpreter.cxx: the process-wide     *)
(* lifecycle of the embedded Python runtime (Initialize / Finalize), the   *)
(* registry of observer instances, the pending module search paths, the    *)
(* console buffering of RunSimpleString and the launcher entry PyMain.     *)
(*                                                                         *)
(* The program is single threaded.  A call is a frame on `stack`; the top  *)
(* frame's `pc` names the next block of statements of that function, and   *)
(* one action executes one block.  A new top-level call starts only when   *)
(* the stack is empty.                                                     *)
(***************************************************************************)
EXTENDS Integers, Sequences, FiniteSets, TLC

\* ---------------------------------------------------------------- bounds
MaxPaths == 2       \* PrependPythonPath calls modelled (length of PythonPaths)
MaxScriptLen == 2   \* characters of a script given to RunSimpleString
MaxArgs == 2        \* arguments after argv[0] given to PyMain
MaxStarts == 2      \* Py_InitializeEx invocations modelled
MaxReentry == 1     \* RunSimpleString calls nested in observers' handlers

\* ------------------------------------------------------- build / platform
\* The two preprocessor conditions the modelled code depends on
\* (PY_VERSION_HEX >= 0x03000000, and _WIN32 && !__CYGWIN__).
Builds == [py3 : BOOLEAN, win32 : BOOLEAN]

NULL == "NULL"

\* A null char pointer: no string holds the element NULL.
NullStr == <<NULL>>

\* ---------------------------------------------------------------- values
\* Observer instances (addresses of vtkPythonInterpreter objects).
Instances == {"i1", "i2"}

\* Directory strings are sequences of characters.
Dirs == {<<"a", "/", "b">>, <<"c">>}

\* Script characters.  The embedded interpreter is modelled by a tiny
\* language: "a" and "b" print themselves to sys.stdout, "!" raises (the
\* traceback "E" goes to sys.stderr and the script stops with status -1),
\* a carriage return is a character the runtime would choke on.
CR == "\r"
ScriptChars == {"a", "b", "!", CR}

\* Command line arguments of PyMain.  BadArg stands for an argument whose
\* bytes the locale decoder rejects.
BadArg == "<undecodable>"
ArgStrings == {"-v", "-vv", "--enable-bt", "-V", "s.py", BadArg}

\* Events of vtkCommand used by the file.
EnterEvent == "EnterEvent"
ExitEvent == "ExitEvent"
ErrorEvent == "ErrorEvent"
SetOutputEvent == "SetOutputEvent"

RECURSIVE SeqsUpTo(_, _)
SeqsUpTo(S, n) ==
  IF n = 0 THEN {<<>>}
  ELSE LET shorter == SeqsUpTo(S, n - 1)
       IN shorter \cup {Append(s, x) : s \in shorter, x \in S}

Range(s) == {s[i] : i \in 1..Len(s)}

Scripts == SeqsUpTo(ScriptChars, MaxScriptLen) \cup {NullStr}

Argvs == {<<"vtkpython">> \o rest : rest \in SeqsUpTo(ArgStrings, MaxArgs)}

VARIABLES
  build,               \* the build configuration (fixed for the process)
  pyInitialized,       \* Py_IsInitialized() != 0
  InitializedOnce,     \* vtkPythonInterpreter::InitializedOnce
  ConsoleBuffering,    \* vtkPythonInterpreter::ConsoleBuffering
  StdErrBuffer,        \* vtkPythonInterpreter::StdErrBuffer
  StdOutBuffer,        \* vtkPythonInterpreter::StdOutBuffer
  PythonVerboseFlag,   \* vtkPythonInterpreter::PythonVerboseFlag
  GlobalInterpreters,  \* the registry of weak pointers, in insertion order
  PythonPaths,         \* the pending search paths, in insertion order
  sysPath,             \* the runtime's sys.path, read left to right
  stdStreams,          \* TRUE when sys.stdout/stderr are the capture helpers
  programName,         \* Py_GetProgramName()
  stackTraceOnError,   \* vtksys::SystemInformation stack-trace flag
  alive,               \* the instances constructed and not yet destroyed
  stack,               \* call stack, top frame last
  ret,                 \* value returned by the last frame popped
  log,                 \* notifications delivered since the last top-level call
  hist                 \* history of the process (what ran, and how often)

progVars == <<pyInitialized, InitializedOnce, ConsoleBuffering, StdErrBuffer,
              StdOutBuffer, PythonVerboseFlag, GlobalInterpreters, PythonPaths,
              sysPath, stdStreams, programName, stackTraceOnError>>

vars == <<build, pyInitialized, InitializedOnce, ConsoleBuffering, StdErrBuffer,
          StdOutBuffer, PythonVerboseFlag, GlobalInterpreters, PythonPaths,
          sysPath, stdStreams, programName, stackTraceOnError, alive, stack,
          ret, log, hist>>


\* ------------------------------------------------------------ call stack
Frame(fn, pc, arg, loc) == [fn |-> fn, pc |-> pc, arg |-> arg, loc |-> loc]

Top == stack[Len(stack)]

Idle == stack = <<>>

At(fn, pc) == stack # <<>> /\ Top.fn = fn /\ Top.pc = pc

\* The stack with the top frame moved to `pc` and its locals set to `loc`.
Goto(pc, loc) == [stack EXCEPT ![Len(stack)] = [@ EXCEPT !.pc = pc, !.loc = loc]]

Popped == SubSeq(stack, 1, Len(stack) - 1)

NoRet == [fn |-> NULL, val |-> NULL, info |-> NULL]

Returned(fn, val, info) == [fn |-> fn, val |-> val, info |-> info]

\* ---------------------------------------------------------- pure helpers
\* VTK_PATH_SEPARATOR (lines 49-53).
VTK_PATH_SEPARATOR == IF build.win32 THEN "\\" ELSE "/"

\* std::replace(out_dir.begin(), out_dir.end(), '/', '\\') on Windows only
\* (lines 364-369).
ConvertSlashes(dir) ==
  IF build.win32
  THEN [i \in 1..Len(dir) |-> IF dir[i] = "/" THEN "\\" ELSE dir[i]]
  ELSE dir

\* std::remove that stops after the first occurrence.
RECURSIVE RemoveChar_First(_, _)
RemoveChar_First(s, c) ==
  IF s = <<>> THEN <<>>
  ELSE IF Head(s) = c THEN Tail(s)
       ELSE <<Head(s)>> \o RemoveChar_First(Tail(s), c)

\* buffer.erase(std::remove(buffer.begin(), buffer.end(), '\r'), buffer.end())
\* applied to `script ? script : ""` (lines 479-480).
RECURSIVE RemoveChar(_, _)
RemoveChar(s, c) ==
  IF s = <<>> THEN <<>>
  ELSE IF Head(s) = c THEN RemoveChar(Tail(s), c)
       ELSE <<Head(s)>> \o RemoveChar(Tail(s), c)

StripCarriageReturns(script) ==
  RemoveChar(IF script = NullStr THEN <<>> ELSE script, CR)

\* vtk_Py_DecodeLocale (lines 112-123): a wide copy of the argument, or a
\* null pointer when the bytes cannot be decoded.
vtk_Py_DecodeLocale(arg) == IF arg = BadArg THEN NullStr ELSE <<"L", arg>>

\* The verbosity scan with "= 1" in place of "+= 1" for -v.
RECURSIVE ScanVerbose_Set(_, _, _)
ScanVerbose_Set(argv, cc, flag) ==
  IF cc > Len(argv) THEN flag
  ELSE LET f1 == IF argv[cc] # NULL /\ argv[cc] = "-v" THEN 1 ELSE flag
           f2 == IF argv[cc] # NULL /\ argv[cc] = "-vv" THEN 2 ELSE f1
       IN ScanVerbose_Set(argv, cc + 1, f2)

\* The verbosity scan of PyMain (lines 387-398), from argv[cc] on.
RECURSIVE ScanVerbose(_, _, _)
ScanVerbose(argv, cc, flag) ==
  IF cc > Len(argv) THEN flag
  ELSE LET f1 == IF argv[cc] # NULL /\ argv[cc] = "-v" THEN flag + 1 ELSE flag
           f2 == IF argv[cc] # NULL /\ argv[cc] = "-vv" THEN 2 ELSE f1
       IN ScanVerbose(argv, cc + 1, f2)

\* The argument loop of PyMain for Python 3 (lines 403-436), from argv[i] on:
\* `acc` holds argvWide and the stack-trace flag so far.  The loop stops at
\* the first argument that does not decode.
RECURSIVE DecodeArgs(_, _, _)
DecodeArgs(argv, i, acc) ==
  IF i > Len(argv) THEN acc
  ELSE IF argv[i] # NULL /\ argv[i] = "--enable-bt"
       THEN DecodeArgs(argv, i + 1, [acc EXCEPT !.bt = TRUE])
       ELSE LET w == vtk_Py_DecodeLocale(argv[i])
            IN IF w = NullStr
               THEN [acc EXCEPT !.failed = i]
               ELSE DecodeArgs(argv, i + 1, [acc EXCEPT !.args = Append(@, w)])

\* The argument loop of PyMain for Python 2 (lines 449-464).
RECURSIVE CopyArgs(_, _, _)
CopyArgs(argv, i, acc) ==
  IF i > Len(argv) THEN acc
  ELSE IF argv[i] # NULL /\ argv[i] = "--enable-bt"
       THEN CopyArgs(argv, i + 1, [acc EXCEPT !.bt = TRUE])
       ELSE CopyArgs(argv, i + 1, [acc EXCEPT !.args = Append(@, argv[i])])

\* BuildArgs without the test of the decoder's result (lines 422-434).
BuildArgs_NoNullCheck(argv) ==
  LET acc0 == [args |-> <<>>, bt |-> stackTraceOnError, failed |-> 0]
      b == IF build.py3 THEN DecodeArgs(argv, 1, acc0) ELSE CopyArgs(argv, 1, acc0)
  IN [b EXCEPT !.failed = 0]

\* BuildArgs with the verbosity flags dropped from the argument vector too.
BuildArgs_StripVerbose(argv) ==
  LET acc0 == [args |-> <<>>, bt |-> stackTraceOnError, failed |-> 0]
      kept == SelectSeq(argv, LAMBDA a : a \notin {"-v", "-vv"})
  IN IF build.py3 THEN DecodeArgs(kept, 1, acc0) ELSE CopyArgs(kept, 1, acc0)

\* What PyMain builds for Py_Main: [args, bt, failed] where failed is 0 or
\* the index of the argument that did not decode.
BuildArgs(argv) ==
  LET acc0 == [args |-> <<>>, bt |-> stackTraceOnError, failed |-> 0]
  IN IF build.py3 THEN DecodeArgs(argv, 1, acc0) ELSE CopyArgs(argv, 1, acc0)

\* ------------------------------------------------------ observer registry
\* vtkWeakPointer::GetPointer: the instance while it is alive, null after.
GetPointer(p) == IF p \in alive THEN p ELSE NULL

\* The instances NotifyInterpreters invokes, in registry order
\* (lines 175-185).
RECURSIVE Receivers(_)
Receivers(reg) ==
  IF reg = <<>> THEN <<>>
  ELSE IF GetPointer(Head(reg)) # NULL
       THEN <<GetPointer(Head(reg))>> \o Receivers(Tail(reg))
       ELSE Receivers(Tail(reg))

\* One NotifyInterpreters(eventid, calldata) call as the log records it: the
\* instances invoked, with the process state they saw.
NotifyInterpreters(eventid, calldata) ==
  [ev |-> eventid, data |-> calldata, to |-> Receivers(GlobalInterpreters),
   started |-> pyInitialized, buffering |-> ConsoleBuffering]

\* The erase loop erasing begin() instead of the entry found.
EraseFirst_Begin(reg, this) == IF reg = <<>> THEN <<>> ELSE Tail(reg)

\* The erase loop of the destructor (lines 228-236): the first entry equal
\* to `this` is removed.
RECURSIVE EraseFirst(_, _)
EraseFirst(reg, this) ==
  IF reg = <<>> THEN <<>>
  ELSE IF Head(reg) = this THEN Tail(reg)
       ELSE <<Head(reg)>> \o EraseFirst(Tail(reg), this)

\* ---------------------------------------------------- global execution lock
\* What an operation did with the global execution lock: how often its
\* scopes acquired it, how often they released it, and how often the runtime
\* released it on its own.
NoLock == [acquired |-> 0, released |-> 0, byRuntime |-> 0]

\* The constructor of vtkPythonScopeGilEnsurer: the lock is acquired.
vtkPythonScopeGilEnsurer(gil) == [gil EXCEPT !.acquired = @ + 1]

\* The destructor of vtkPythonScopeGilEnsurer: the lock is released unless
\* the scope was constructed with noRelease.
ScopeExit(gil, noRelease) ==
  IF noRelease THEN gil ELSE [gil EXCEPT !.released = @ + 1]

\* n scopes (lines 190, 291) constructed with the default arguments and left.
Scopes(gil, n) == [gil EXCEPT !.acquired = @ + n, !.released = @ + n]

\* The runtime releases the lock itself, as Py_Finalize does (line 320).
ReleasedByRuntime(gil) == [gil EXCEPT !.byRuntime = @ + 1]

\* ------------------------------------------------------------ search path
\* vtkPrependPythonPath with PyList_Append in place of PyList_Insert(.., 0, ..).
vtkPrependPythonPath_Append(path, pathtoadd) == Append(path, pathtoadd)

\* vtkPrependPythonPath (lines 187-199): PyList_Insert(path, 0, newpath).
vtkPrependPythonPath(path, pathtoadd) == <<pathtoadd>> \o path

\* The replay loop replaying nothing.
ReplayPaths_None(path, cc) == path

\* The replay loop of Initialize (lines 301-304), from PythonPaths[cc] on.
RECURSIVE ReplayPaths(_, _)
ReplayPaths(path, cc) ==
  IF cc > Len(PythonPaths) THEN path
  ELSE ReplayPaths(vtkPrependPythonPath(path, PythonPaths[cc]), cc + 1)


\* systools::JoinPath: the components joined with "/".
RECURSIVE JoinPath(_)
JoinPath(components) ==
  IF components = <<>> THEN <<>>
  ELSE IF Len(components) = 1 THEN <<components[1]>>
       ELSE JoinPath(SubSeq(components, 1, Len(components) - 1))
              \o <<"/", components[Len(components)]>>

\* The directory the walk of SetupVTKPythonPaths starts from, split into
\* components (lines 645-662).
PrefixComponents == <<"opt", "vtk", "lib">>

\* pathtocheck of the walk (lines 673-674) for a prefix.
PathToCheck(components) ==
  JoinPath(components) \o <<VTK_PATH_SEPARATOR, "site-packages">>

\* The directories <prefix>/<site-packages> a file system may hold.
RECURSIVE Candidates(_)
Candidates(components) ==
  IF components = <<>> THEN {}
  ELSE {PathToCheck(components)}
         \cup Candidates(SubSeq(components, 1, Len(components) - 1))

\* vtkSafePrependPythonPath (lines 201-208); a directory that holds the
\* landmark file is a directory.
vtkSafePrependPythonPath(path, pathtoadd) ==
  IF pathtoadd # <<>> THEN vtkPrependPythonPath(path, pathtoadd) ELSE path

\* The walk of SetupVTKPythonPaths without the break of line 680.
RECURSIVE SetupVTKPythonPaths_NoBreak(_, _, _)
SetupVTKPythonPaths_NoBreak(path, components, landmarks) ==
  IF components = <<>> THEN path
  ELSE SetupVTKPythonPaths_NoBreak(
         IF PathToCheck(components) \in landmarks
         THEN vtkSafePrependPythonPath(path, PathToCheck(components))
         ELSE path,
         SubSeq(components, 1, Len(components) - 1), landmarks)

\* The walk of SetupVTKPythonPaths (lines 671-687): `landmarks` is the set of
\* site-packages directories in which vtk/__init__.py exists.
RECURSIVE SetupVTKPythonPaths(_, _, _)
SetupVTKPythonPaths(path, components, landmarks) ==
  IF components = <<>> THEN path
  ELSE IF PathToCheck(components) \in landmarks
       THEN vtkSafePrependPythonPath(path, PathToCheck(components))
       ELSE SetupVTKPythonPaths(path, SubSeq(components, 1, Len(components) - 1),
                                landmarks)

\* The directories whose landmark file the walk tests with FileExists
\* (line 676), in the order it tests them.
RECURSIVE LandmarksTested(_, _)
LandmarksTested(components, landmarks) ==
  IF components = <<>> THEN <<>>
  ELSE IF PathToCheck(components) \in landmarks
       THEN <<PathToCheck(components)>>
       ELSE <<PathToCheck(components)>>
              \o LandmarksTested(SubSeq(components, 1, Len(components) - 1),
                                 landmarks)

\* ------------------------------------------------------------ program name
DefaultProgramName == <<"python">>

\* vtk_Py_DecodeLocale (lines 112-123) on a program name, which is a sequence
\* of characters: the wide string, or a null pointer when a character cannot
\* be decoded.
DecodeProgramName(name) ==
  IF BadArg \in Range(name) THEN NullStr ELSE <<"L">> \o name

\* vtk_Py_EncodeLocale (lines 126-134) on a wide string.
vtk_Py_EncodeLocale(wide) == Tail(wide)

\* The program name as the runtime stores it: wide in Python 3 builds.
NativeProgramName(name) == IF build.py3 THEN DecodeProgramName(name) ELSE name

\* Where GetLibraryForSymbol("Py_SetProgramName") may find the runtime
\* library; empty when it cannot be found (lines 137-170).
PythonLibs == {<<>>, <<"opt", "/", "lib", "/", "libpython.so">>}

\* systools::GetFilenamePath: the path up to its last slash.
RECURSIVE GetFilenamePath(_)
GetFilenamePath(file) ==
  IF file = <<>> THEN <<>>
  ELSE IF file[Len(file)] \in {"/", "\\"}
       THEN SubSeq(file, 1, Len(file) - 1)
       ELSE GetFilenamePath(SubSeq(file, 1, Len(file) - 1))

\* SetupPythonPrefix with the Py_GetPythonHome() test of lines 577-583 left
\* out.
SetupPythonPrefix_IgnoreHome(name, home, pythonlib) ==
  LET oldprogramname == IF build.py3 THEN vtk_Py_EncodeLocale(name) ELSE name
      newprogramname ==
        GetFilenamePath(pythonlib) \o <<VTK_PATH_SEPARATOR, "vtkpython">>
  IN IF pythonlib = <<>> THEN name
     ELSE IF oldprogramname # NullStr /\ oldprogramname # DefaultProgramName
          THEN name
          ELSE NativeProgramName(newprogramname)

\* SetupPythonPrefix (lines 573-622): the program name it leaves, given
\* whether PYTHONHOME is set and where the runtime library was found.
SetupPythonPrefix(name, home, pythonlib) ==
  LET oldprogramname == IF build.py3 THEN vtk_Py_EncodeLocale(name) ELSE name
      newprogramname ==
        GetFilenamePath(pythonlib) \o <<VTK_PATH_SEPARATOR, "vtkpython">>
  IN IF home THEN name
     ELSE IF pythonlib = <<>> THEN name
     ELSE IF oldprogramname # NullStr /\ oldprogramname # DefaultProgramName
          THEN name
          ELSE NativeProgramName(newprogramname)

\* The sys.path of a freshly started runtime.
DefaultSysPath == << <<"stdlib">> >>

\* --------------------------------------------------------------- history
Hist0 ==
  [prefix |-> 0, starts |-> 0, finalizes |-> 0, threads |-> 0, emptyScript |-> 0,
   bind |-> 0, paths |-> 0, replay |-> 0, enter |-> 0,
   initCalls |-> 0, initReturns |-> 0, initTrue |-> 0, destroyed |-> FALSE]

Bump(h, f) == [h EXCEPT ![f] = @ + 1]

\* Counts up to two (none, one, several).
Bump2(h, f) == [h EXCEPT ![f] = IF @ < 2 THEN @ + 1 ELSE @]

\* ------------------------------------------------------------------ Init
Init ==
  /\ build \in Builds
  /\ pyInitialized = FALSE
  /\ InitializedOnce = FALSE
  /\ ConsoleBuffering = FALSE
  /\ StdErrBuffer = <<>>
  /\ StdOutBuffer = <<>>
  /\ PythonVerboseFlag = 0
  /\ GlobalInterpreters = <<>>
  /\ PythonPaths = <<>>
  /\ sysPath = <<>>
  /\ stdStreams = FALSE
  /\ programName = NativeProgramName(DefaultProgramName)
  /\ stackTraceOnError = FALSE
  /\ alive = {}
  /\ stack = <<>>
  /\ ret = NoRet
  /\ log = <<>>
  /\ hist = Hist0

\* Groups of variables for UNCHANGED.
flagVars == <<InitializedOnce, PythonVerboseFlag, stackTraceOnError>>
bufVars == <<ConsoleBuffering, StdErrBuffer, StdOutBuffer>>
regVars == <<GlobalInterpreters, alive>>
runtimeVars == <<pyInitialized, sysPath, stdStreams, programName>>

\* A top-level call may start the runtime only MaxStarts times.
MayStart == pyInitialized \/ hist.starts < MaxStarts

\* The frame of a call of Initialize; it remembers whether the call is the
\* first one of the process (n = 1) or a later one (n = 2).
InitializeFrame ==
  Frame("Initialize", "start", [n |-> IF hist.initCalls = 0 THEN 1 ELSE 2], NULL)

\* A top-level call of a function pushes its frame.
Call(fn, pc, arg, loc) ==
  /\ Idle
  /\ stack' = <<Frame(fn, pc, arg, loc)>>
  /\ ret' = NoRet
  /\ log' = <<>>


\* ------------------------------------------------------------- Initialize
\* Lines 254-265: the runtime is started when Py_IsInitialized() is 0.
NeedsStart == ~pyInitialized

\* NeedsSetup with the one-time setup keyed on the runtime's streams instead
\* of the InitializedOnce flag.
NeedsSetup_Streams == ~stdStreams

\* Line 267: the one-time setup runs when InitializedOnce is not yet set.
NeedsSetup == ~InitializedOnce

CallInitialize ==
  /\ MayStart
  /\ Idle
  /\ stack' = <<InitializeFrame>>
  /\ hist' = Bump2(hist, "initCalls")
  /\ ret' = NoRet
  /\ log' = <<>>
  /\ UNCHANGED <<build, progVars, alive>>

\* Lines 254-257: when the runtime is not started, SetupPythonPrefix runs
\* first, with PYTHONHOME set or not and the runtime library found or not.
InitializePrefix ==
  /\ At("Initialize", "start")
  /\ IF NeedsStart
     THEN /\ \E home \in BOOLEAN, pythonlib \in PythonLibs :
               /\ programName' = SetupPythonPrefix(programName, home, pythonlib)
               /\ stack' = Goto("startup", [home |-> home, pythonlib |-> pythonlib])
          /\ hist' = Bump(hist, "prefix")
     ELSE /\ stack' = Goto("once", NULL)
          /\ UNCHANGED <<programName, hist>>
  /\ UNCHANGED <<build, flagVars, bufVars, regVars, pyInitialized, sysPath,
                 stdStreams, PythonPaths, ret, log>>

\* Lines 259-265: Py_InitializeEx, signal(SIGINT, SIG_DFL).
InitializeStart ==
  /\ At("Initialize", "startup")
  /\ pyInitialized' = TRUE
  /\ sysPath' = DefaultSysPath
  /\ stdStreams' = FALSE
  /\ hist' = Bump(hist, "starts")
  /\ stack' = Goto("once", NULL)
  /\ UNCHANGED <<build, flagVars, bufVars, regVars, programName, PythonPaths,
                 ret, log>>

\* Lines 267-284 when the setup already ran: line 310, return false.
InitializeAgain ==
  /\ At("Initialize", "once")
  /\ ~NeedsSetup
  /\ stack' = Popped
  /\ ret' = Returned("Initialize", FALSE, [n |-> Top.arg.n])
  /\ hist' = Bump2(hist, "initReturns")
  /\ UNCHANGED <<build, progVars, alive, log>>

\* InitializeOnceOnly with the assignment of line 269 left out: the empty
\* script is run while InitializedOnce is still unset.
InitializeOnceOnly_FlagUnset ==
  /\ At("Initialize", "once")
  /\ NeedsSetup
  /\ hist' = Bump(Bump(hist, "threads"), "emptyScript")
  /\ stack' = Append(Goto("bind", NULL),
                     Frame("RunSimpleString", "init", <<>>, NULL))
  /\ UNCHANGED <<build, PythonVerboseFlag, stackTraceOnError, bufVars, regVars,
                 runtimeVars, PythonPaths, InitializedOnce, ret, log>>

\* Lines 267-284: the flag is set, threads are set up, and the empty script
\* is run by a nested RunSimpleString("").
InitializeOnceOnly ==
  /\ At("Initialize", "once")
  /\ NeedsSetup
  /\ InitializedOnce' = TRUE
  /\ hist' = Bump(Bump(hist, "threads"), "emptyScript")
  /\ stack' = Append(Goto("bind", NULL),
                     Frame("RunSimpleString", "init", <<>>, NULL))
  /\ UNCHANGED <<build, PythonVerboseFlag, stackTraceOnError, bufVars, regVars,
                 runtimeVars, PythonPaths, ret, log>>

\* InitializeBind with the stream binding of lines 289-296 left out.
InitializeBind_Skip ==
  /\ At("Initialize", "bind")
  /\ hist' = Bump(hist, "bind")
  /\ stack' = Goto("paths", [gil |-> Scopes(NoLock, 1)])
  /\ UNCHANGED <<build, flagVars, bufVars, regVars, runtimeVars, PythonPaths,
                 ret, log>>

\* Lines 286-297: sys.stdout, sys.stderr and sys.stdin become the helpers.
InitializeBind ==
  /\ At("Initialize", "bind")
  /\ stdStreams' = TRUE
  /\ hist' = Bump(hist, "bind")
  /\ stack' = Goto("paths", [gil |-> Scopes(NoLock, 1)])
  /\ UNCHANGED <<build, flagVars, bufVars, regVars, pyInitialized, sysPath,
                 programName, PythonPaths, ret, log>>

\* Line 299: SetupVTKPythonPaths, on whatever the file system holds.  The
\* frame remembers the file system, the search path before the walk and the
\* landmark files the walk tested.
InitializePaths ==
  /\ At("Initialize", "paths")
  /\ \E landmarks \in SUBSET Candidates(PrefixComponents) :
       /\ sysPath' = SetupVTKPythonPaths(sysPath, PrefixComponents, landmarks)
       /\ stack' = Goto("replay",
            [landmarks |-> landmarks, before |-> sysPath,
             tested |-> LandmarksTested(PrefixComponents, landmarks),
             gil |-> Scopes(Top.loc.gil,
                       Len(SetupVTKPythonPaths(sysPath, PrefixComponents, landmarks))
                         - Len(sysPath))])
  /\ hist' = Bump(hist, "paths")
  /\ UNCHANGED <<build, flagVars, bufVars, regVars, pyInitialized, stdStreams,
                 programName, PythonPaths, ret, log>>

\* Lines 301-304: every pending path is prepended.  The frame remembers the
\* search path the loop started from.
InitializeReplay ==
  /\ At("Initialize", "replay")
  /\ sysPath' = ReplayPaths(sysPath, 1)
  /\ hist' = Bump(hist, "replay")
  /\ stack' = Goto("enter", [present |-> sysPath,
                             gil |-> Scopes(Top.loc.gil, Len(PythonPaths))])
  /\ UNCHANGED <<build, flagVars, bufVars, regVars, pyInitialized, stdStreams,
                 programName, PythonPaths, ret, log>>

\* Lines 306-307: NotifyInterpreters(EnterEvent); return true.
InitializeEnter ==
  /\ At("Initialize", "enter")
  /\ log' = Append(log, NotifyInterpreters(EnterEvent, NullStr))
  /\ hist' = Bump(Bump2(Bump(hist, "enter"), "initReturns"), "initTrue")
  /\ stack' = Popped
  /\ ret' = Returned("Initialize", TRUE,
                     [n |-> Top.arg.n, present |-> Top.loc.present,
                      gil |-> Top.loc.gil])
  /\ UNCHANGED <<build, progVars, alive>>

\* --------------------------------------------------------------- Finalize
\* The frame remembers the state Finalize was called in.
CallFinalize ==
  /\ Call("Finalize", "start", [started |-> pyInitialized, pre |-> progVars], NULL)
  /\ UNCHANGED <<build, progVars, alive, hist>>

\* The guard of Finalize testing the ever-initialized flag instead of the
\* runtime.
FinalizeGuard_Once == InitializedOnce

\* Line 316: the guard of Finalize.
FinalizeGuard == pyInitialized

\* Lines 316-318: NotifyInterpreters(ExitEvent) when the runtime is started.
FinalizeNotify ==
  /\ At("Finalize", "start")
  /\ FinalizeGuard
  /\ log' = Append(log, NotifyInterpreters(ExitEvent, NullStr))
  /\ stack' = Goto("shutdown", NULL)
  /\ UNCHANGED <<build, progVars, alive, ret, hist>>

\* Lines 316-323 when the runtime is not started: nothing happens.
FinalizeSkip ==
  /\ At("Finalize", "start")
  /\ ~FinalizeGuard
  /\ stack' = Popped
  /\ ret' = Returned("Finalize", NULL,
                     [started |-> Top.arg.started, pre |-> Top.arg.pre,
                      gil |-> NoLock])
  /\ UNCHANGED <<build, progVars, alive, log, hist>>

\* Lines 319-321: Py_Finalize() inside a scope constructed with noRelease.
FinalizeShutdown ==
  /\ At("Finalize", "shutdown")
  /\ pyInitialized' = FALSE
  /\ sysPath' = <<>>
  /\ stdStreams' = FALSE
  /\ hist' = Bump(hist, "finalizes")
  /\ stack' = Popped
  /\ ret' = Returned("Finalize", NULL,
       [started |-> Top.arg.started, pre |-> Top.arg.pre,
        gil |-> ScopeExit(ReleasedByRuntime(vtkPythonScopeGilEnsurer(NoLock)),
                          TRUE)])
  /\ UNCHANGED <<build, flagVars, bufVars, regVars, programName, PythonPaths, log>>


\* ------------------------------------------------- WriteStdOut / WriteStdErr
\* WriteStdOut without the ConsoleBuffering test: every write is notified.
WriteStdOut_Unbuffered(txt, lg) ==
  /\ StdOutBuffer' = StdOutBuffer
  /\ log' = Append(lg, NotifyInterpreters(SetOutputEvent, txt))

\* WriteStdOut (lines 521-532): what it does to StdOutBuffer and to the log
\* `lg` of the running call.
WriteStdOut(txt, lg) ==
  IF ConsoleBuffering
  THEN /\ StdOutBuffer' = StdOutBuffer \o txt
       /\ log' = lg
  ELSE /\ StdOutBuffer' = StdOutBuffer
       /\ log' = Append(lg, NotifyInterpreters(SetOutputEvent, txt))

\* WriteStdErr notifying the observers of buffered text as well.
WriteStdErr_AlsoNotifies(txt, lg) ==
  IF ConsoleBuffering
  THEN /\ StdErrBuffer' = StdErrBuffer \o txt
       /\ log' = Append(lg, NotifyInterpreters(ErrorEvent, txt))
  ELSE /\ StdErrBuffer' = StdErrBuffer
       /\ log' = Append(lg, NotifyInterpreters(ErrorEvent, txt))

\* WriteStdErr (lines 540-551): what it does to StdErrBuffer and to the log.
WriteStdErr(txt, lg) ==
  IF ConsoleBuffering
  THEN /\ StdErrBuffer' = StdErrBuffer \o txt
       /\ log' = lg
  ELSE /\ StdErrBuffer' = StdErrBuffer
       /\ log' = Append(lg, NotifyInterpreters(ErrorEvent, txt))

\* The texts a direct caller writes.
Texts == {<<"a">>, <<"b">>}

\* A direct call of WriteStdOut, outside any script.
WriteStdOutCall ==
  /\ Idle
  /\ \E txt \in Texts :
       /\ WriteStdOut(txt, <<>>)
       /\ ret' = Returned("WriteStdOut", NULL, [txt |-> txt])
  /\ UNCHANGED <<build, flagVars, ConsoleBuffering, StdErrBuffer, regVars,
                 runtimeVars, PythonPaths, stack, hist>>

\* A direct call of WriteStdErr, outside any script.
WriteStdErrCall ==
  /\ Idle
  /\ \E txt \in Texts :
       /\ WriteStdErr(txt, <<>>)
       /\ ret' = Returned("WriteStdErr", NULL, [txt |-> txt])
  /\ UNCHANGED <<build, flagVars, ConsoleBuffering, StdOutBuffer, regVars,
                 runtimeVars, PythonPaths, stack, hist>>

\* -------------------------------------------------------- RunSimpleString
\* What a top-level call of RunSimpleString remembers of the state it was
\* called in: whether the runtime was started and set up, and then the
\* process-wide state.
CallState ==
  [ready |-> pyInitialized /\ InitializedOnce,
   pre |-> IF pyInitialized /\ InitializedOnce THEN progVars ELSE <<>>]

CallRunSimpleString ==
  /\ MayStart
  /\ \E script \in Scripts : Call("RunSimpleString", "init", script, CallState)
  /\ UNCHANGED <<build, progVars, alive, hist>>

\* The same call with one fixed script, for the specifications that are not
\* about scripts.
PlainScripts == {<<"a", "!">>}

CallRunSimpleStringPlain ==
  /\ MayStart
  /\ \E script \in PlainScripts : Call("RunSimpleString", "init", script, CallState)
  /\ UNCHANGED <<build, progVars, alive, hist>>

\* Line 474: vtkPythonInterpreter::Initialize(1).
RunInitialize ==
  /\ At("RunSimpleString", "init")
  /\ stack' = Append(Goto("begin", Top.loc), InitializeFrame)
  /\ hist' = Bump2(hist, "initCalls")
  /\ UNCHANGED <<build, progVars, alive, ret, log>>

\* Lines 475-485: buffering is turned on, the script is copied without its
\* carriage returns, and the scope around PyRun_SimpleString is entered.  `out` and `err` collect what this call's script
\* hands to WriteStdOut and WriteStdErr.
RunBegin ==
  /\ At("RunSimpleString", "begin")
  /\ ConsoleBuffering' = TRUE
  /\ stack' = Goto("exec", [buffer |-> StripCarriageReturns(Top.arg), ip |-> 1,
                            pyReturn |-> 0, out |-> <<>>, err |-> <<>>,
                            call |-> Top.loc,
                            gil |-> vtkPythonScopeGilEnsurer(NoLock)])
  /\ UNCHANGED <<build, flagVars, StdErrBuffer, StdOutBuffer, regVars,
                 runtimeVars, PythonPaths, ret, log, hist>>

\* What the runtime does with one character of the script it was given
\* (PyRun_SimpleString, line 486): "a" and "b" are written to sys.stdout;
\* anything else is an error, whose traceback goes to sys.stderr and ends the
\* script with status -1.  sys.stdout and sys.stderr reach WriteStdOut and
\* WriteStdErr only once Initialize has bound them.
Prints(c) == c \in {"a", "b"}

Traceback == <<"E">>

RunStatement ==
  /\ At("RunSimpleString", "exec")
  /\ Top.loc.ip <= Len(Top.loc.buffer)
  /\ LET l == Top.loc
         c == l.buffer[l.ip]
     IN IF Prints(c)
        THEN /\ IF stdStreams THEN WriteStdOut(<<c>>, log)
                ELSE UNCHANGED <<StdOutBuffer, log>>
             /\ stack' = Goto("exec",
                  [l EXCEPT !.ip = @ + 1,
                            !.out = IF stdStreams THEN @ \o <<c>> ELSE @])
             /\ UNCHANGED StdErrBuffer
        ELSE /\ IF stdStreams THEN WriteStdErr(Traceback, log)
                ELSE UNCHANGED <<StdErrBuffer, log>>
             /\ stack' = Goto("exec",
                  [l EXCEPT !.ip = Len(l.buffer) + 1, !.pyReturn = -1,
                            !.err = IF stdStreams THEN @ \o Traceback ELSE @])
             /\ UNCHANGED StdOutBuffer
  /\ UNCHANGED <<build, flagVars, ConsoleBuffering, regVars, runtimeVars,
                 PythonPaths, ret, hist>>

\* RunEnd turning buffering off only after a script that succeeded.
RunEnd_OnSuccess ==
  /\ At("RunSimpleString", "exec")
  /\ Top.loc.ip > Len(Top.loc.buffer)
  /\ ConsoleBuffering' = (Top.loc.pyReturn # 0)
  /\ stack' = Goto("flusherr", [Top.loc EXCEPT !.gil = ScopeExit(@, FALSE)])
  /\ UNCHANGED <<build, flagVars, StdErrBuffer, StdOutBuffer, regVars,
                 runtimeVars, PythonPaths, ret, log, hist>>

\* Lines 487-489: the script has ended, its scope is left and buffering is
\* turned off.
RunEnd ==
  /\ At("RunSimpleString", "exec")
  /\ Top.loc.ip > Len(Top.loc.buffer)
  /\ ConsoleBuffering' = FALSE
  /\ stack' = Goto("flusherr", [Top.loc EXCEPT !.gil = ScopeExit(@, FALSE)])
  /\ UNCHANGED <<build, flagVars, StdErrBuffer, StdOutBuffer, regVars,
                 runtimeVars, PythonPaths, ret, log, hist>>

\* RunFlushErr without StdErrBuffer.clear().
RunFlushErr_NoClear ==
  /\ At("RunSimpleString", "flusherr")
  /\ IF StdErrBuffer # <<>>
     THEN log' = Append(log, NotifyInterpreters(ErrorEvent, StdErrBuffer))
     ELSE UNCHANGED log
  /\ stack' = Goto("flushout", Top.loc)
  /\ UNCHANGED <<build, flagVars, bufVars, regVars, runtimeVars, PythonPaths,
                 ret, hist>>

\* Lines 490-496: a non-empty StdErrBuffer is notified and cleared.
RunFlushErr ==
  /\ At("RunSimpleString", "flusherr")
  /\ IF StdErrBuffer # <<>>
     THEN /\ log' = Append(log, NotifyInterpreters(ErrorEvent, StdErrBuffer))
          /\ StdErrBuffer' = <<>>
     ELSE UNCHANGED <<log, StdErrBuffer>>
  /\ stack' = Goto("flushout", Top.loc)
  /\ UNCHANGED <<build, flagVars, ConsoleBuffering, StdOutBuffer, regVars,
                 runtimeVars, PythonPaths, ret, hist>>

\* Lines 497-505: a non-empty StdOutBuffer is notified and cleared, and the
\* status of the script is returned.
RunFlushOut ==
  /\ At("RunSimpleString", "flushout")
  /\ IF StdOutBuffer # <<>>
     THEN /\ log' = Append(log, NotifyInterpreters(SetOutputEvent, StdOutBuffer))
          /\ StdOutBuffer' = <<>>
     ELSE UNCHANGED <<log, StdOutBuffer>>
  /\ stack' = Popped
  /\ ret' = Returned("RunSimpleString", Top.loc.pyReturn,
                     [out |-> Top.loc.out, err |-> Top.loc.err,
                      call |-> Top.loc.call, gil |-> Top.loc.gil])
  /\ UNCHANGED <<build, flagVars, ConsoleBuffering, StdErrBuffer, regVars,
                 runtimeVars, PythonPaths, hist>>

\* ------------------------------------------- RunSimpleString from a handler
\* InvokeEvent (line 182) runs the observers' handlers inside
\* NotifyInterpreters, and a handler may call RunSimpleString itself.  The
\* scripts such a handler runs:
HandlerScripts == {<<"a">>, <<"!">>}

\* The calls of RunSimpleString that are waiting in a handler of theirs.
Reentries ==
  Cardinality({i \in 1..Len(stack) : stack[i].pc \in {"errhandler", "outhandler"}})

\* Lines 490-494 when the handler of the last observer notified calls
\* RunSimpleString: the notification is delivered and the nested call starts
\* with StdErrBuffer not yet cleared.
RunFlushErrReenter ==
  /\ At("RunSimpleString", "flusherr")
  /\ StdErrBuffer # <<>>
  /\ Receivers(GlobalInterpreters) # <<>>
  /\ Reentries < MaxReentry
  /\ log' = Append(log, NotifyInterpreters(ErrorEvent, StdErrBuffer))
  /\ \E script \in HandlerScripts :
       stack' = Append(Goto("errhandler", Top.loc),
                       Frame("RunSimpleString", "init", script, NULL))
  /\ UNCHANGED <<build, progVars, alive, ret, hist>>

\* Line 495, after the handler's call has returned: StdErrBuffer.clear().
\* The frame adds what the nested call wrote to what it wrote itself.
RunErrHandlerReturn ==
  /\ At("RunSimpleString", "errhandler")
  /\ StdErrBuffer' = <<>>
  /\ stack' = Goto("flushout", [Top.loc EXCEPT !.out = @ \o ret.info.out,
                                              !.err = @ \o ret.info.err])
  /\ UNCHANGED <<build, flagVars, ConsoleBuffering, StdOutBuffer, regVars,
                 runtimeVars, PythonPaths, ret, log, hist>>

\* Lines 497-501 when the handler of the last observer notified calls
\* RunSimpleString, with StdOutBuffer not yet cleared.
RunFlushOutReenter ==
  /\ At("RunSimpleString", "flushout")
  /\ StdOutBuffer # <<>>
  /\ Receivers(GlobalInterpreters) # <<>>
  /\ Reentries < MaxReentry
  /\ log' = Append(log, NotifyInterpreters(SetOutputEvent, StdOutBuffer))
  /\ \E script \in HandlerScripts :
       stack' = Append(Goto("outhandler", Top.loc),
                       Frame("RunSimpleString", "init", script, NULL))
  /\ UNCHANGED <<build, progVars, alive, ret, hist>>

\* Lines 502-505, after the handler's call has returned:
\* StdOutBuffer.clear(); return pyReturn.
RunOutHandlerReturn ==
  /\ At("RunSimpleString", "outhandler")
  /\ StdOutBuffer' = <<>>
  /\ stack' = Popped
  /\ ret' = Returned("RunSimpleString", Top.loc.pyReturn,
                     [out |-> Top.loc.out \o ret.info.out,
                      err |-> Top.loc.err \o ret.info.err,
                      call |-> Top.loc.call, gil |-> Top.loc.gil])
  /\ UNCHANGED <<build, flagVars, ConsoleBuffering, StdErrBuffer, regVars,
                 runtimeVars, PythonPaths, log, hist>>

\* ------------------------------------------------------------------ PyMain
\* The exit codes Py_Main may return.
ExitCodes == {0, 1}

CallPyMain ==
  /\ MayStart
  /\ \E argv \in Argvs : Call("PyMain", "scan", argv, NULL)
  /\ UNCHANGED <<build, progVars, alive, hist>>

\* The same call with two fixed command lines, for the specifications that
\* are not about the command line.
PlainArgvs == {<<"vtkpython", "s.py">>, <<"vtkpython", BadArg>>}

CallPyMainPlain ==
  /\ MayStart
  /\ \E argv \in PlainArgvs : Call("PyMain", "scan", argv, NULL)
  /\ UNCHANGED <<build, progVars, alive, hist>>

\* Lines 386-399: the verbosity scan, then vtkPythonInterpreter::Initialize(1).
MainScan ==
  /\ At("PyMain", "scan")
  /\ PythonVerboseFlag' = ScanVerbose(Top.arg, 1, 0)
  /\ stack' = Append(Goto("args", NULL), InitializeFrame)
  /\ hist' = Bump2(hist, "initCalls")
  /\ UNCHANGED <<build, InitializedOnce, stackTraceOnError, bufVars, regVars,
                 runtimeVars, PythonPaths, ret, log>>

\* Lines 403-436 (Python 3) or 449-464 (Python 2): the argument vector for
\* Py_Main is built.
MainArgs ==
  /\ At("PyMain", "args")
  /\ BuildArgs(Top.arg).failed = 0
  /\ stackTraceOnError' = BuildArgs(Top.arg).bt
  /\ stack' = Goto("pymain", BuildArgs(Top.arg).args)
  /\ UNCHANGED <<build, InitializedOnce, PythonVerboseFlag, bufVars, regVars,
                 runtimeVars, PythonPaths, ret, log, hist>>

\* Lines 422-434: an argument did not decode; return 1.
MainDecodeFailure ==
  /\ At("PyMain", "args")
  /\ BuildArgs(Top.arg).failed # 0
  /\ stackTraceOnError' = BuildArgs(Top.arg).bt
  /\ stack' = Popped
  /\ ret' = Returned("PyMain", 1,
                     [undecodable |-> BadArg \in Range(Top.arg),
                      invoked |-> FALSE, gil |-> NoLock])
  /\ UNCHANGED <<build, InitializedOnce, PythonVerboseFlag, bufVars, regVars,
                 runtimeVars, PythonPaths, log, hist>>

\* Lines 437-445 (Python 3) or 466-467 (Python 2): Py_Main runs with the
\* built arguments and its result is returned.  What the runtime's main
\* entry does with its arguments is outside this file; only its exit code
\* is modelled, and whether it has released the lock when it returns.  The
\* scope around it is constructed with noRelease in Python 2 builds only.
MainPyMain ==
  /\ At("PyMain", "pymain")
  /\ \E res \in ExitCodes, releases \in BOOLEAN :
       ret' = Returned("PyMain", res,
         [undecodable |-> BadArg \in Range(Top.arg), invoked |-> TRUE,
          gil |-> ScopeExit(IF releases
                            THEN ReleasedByRuntime(vtkPythonScopeGilEnsurer(NoLock))
                            ELSE vtkPythonScopeGilEnsurer(NoLock),
                            ~build.py3)])
  /\ stack' = Popped
  /\ UNCHANGED <<build, progVars, alive, log, hist>>

\* ------------------------------------------------------- PrependPythonPath
\* PrependPythonPath without the Py_IsInitialized() test of lines 374-377.
PrependPythonPath_Always ==
  /\ Idle
  /\ \E dir \in Dirs \cup {NullStr} :
       /\ dir # NullStr => Len(PythonPaths) < MaxPaths
       /\ IF dir = NullStr
          THEN UNCHANGED <<PythonPaths, sysPath>>
          ELSE /\ PythonPaths' = Append(PythonPaths, ConvertSlashes(dir))
               /\ sysPath' = vtkPrependPythonPath(sysPath, ConvertSlashes(dir))
       /\ ret' = Returned("PrependPythonPath", NULL,
            [dir |-> dir,
             gil |-> IF dir # NullStr /\ pyInitialized
                     THEN Scopes(NoLock, 1) ELSE NoLock])
  /\ log' = <<>>
  /\ UNCHANGED <<build, flagVars, bufVars, regVars, pyInitialized, stdStreams,
                 programName, stack, hist>>

\* Lines 357-381.
PrependPythonPath ==
  /\ Idle
  /\ \E dir \in Dirs \cup {NullStr} :
       /\ dir # NullStr => Len(PythonPaths) < MaxPaths
       /\ IF dir = NullStr
          THEN UNCHANGED <<PythonPaths, sysPath>>
          ELSE /\ PythonPaths' = Append(PythonPaths, ConvertSlashes(dir))
               /\ IF pyInitialized
                  THEN sysPath' = vtkPrependPythonPath(sysPath, ConvertSlashes(dir))
                  ELSE UNCHANGED sysPath
       /\ ret' = Returned("PrependPythonPath", NULL,
            [dir |-> dir,
             gil |-> IF dir # NullStr /\ pyInitialized
                     THEN Scopes(NoLock, 1) ELSE NoLock])
  /\ log' = <<>>
  /\ UNCHANGED <<build, flagVars, bufVars, regVars, pyInitialized, stdStreams,
                 programName, stack, hist>>

\* ---------------------------------------------------------- SetProgramName
\* The names a host gives to SetProgramName.
ProgramNames == {NullStr, <<"python">>, <<"myapp">>, <<BadArg>>}

\* Lines 326-354: a non-null name is handed to Py_SetProgramName, decoded in
\* Python 3 builds; a name that does not decode is replaced by the empty wide
\* string.
SetProgramName ==
  /\ Idle
  /\ \E programname \in ProgramNames :
       /\ programName' =
            IF programname = NullStr THEN programName
            ELSE IF build.py3
                 THEN IF DecodeProgramName(programname) = NullStr
                      THEN <<"L">>
                      ELSE DecodeProgramName(programname)
                 ELSE programname
       /\ ret' = Returned("SetProgramName", NULL, [programname |-> programname])
  /\ log' = <<>>
  /\ UNCHANGED <<build, flagVars, bufVars, regVars, pyInitialized, sysPath,
                 stdStreams, PythonPaths, stack, hist>>

\* ------------------------------------------------------- observer instances
\* The constructor (lines 220-223).
Construct ==
  /\ Idle
  /\ \E this \in Instances \ alive :
       /\ GlobalInterpreters' = Append(GlobalInterpreters, this)
       /\ alive' = alive \cup {this}
       /\ ret' = Returned("vtkPythonInterpreter", this, NULL)
  /\ log' = <<>>
  /\ UNCHANGED <<build, flagVars, bufVars, runtimeVars, PythonPaths, stack, hist>>

\* The destructor (lines 226-237).
Destroy ==
  /\ Idle
  /\ \E this \in alive :
       /\ GlobalInterpreters' = EraseFirst(GlobalInterpreters, this)
       /\ alive' = alive \ {this}
       /\ ret' = Returned("~vtkPythonInterpreter", this, NULL)
  /\ hist' = [hist EXCEPT !.destroyed = TRUE]
  /\ log' = <<>>
  /\ UNCHANGED <<build, flagVars, bufVars, runtimeVars, PythonPaths, stack>>

\* -------------------------------------------------------------------- Next
\* The blocks of the functions in progress.
Steps ==
  \/ InitializePrefix \/ InitializeStart \/ InitializeAgain \/ InitializeOnceOnly
  \/ InitializeBind \/ InitializePaths \/ InitializeReplay \/ InitializeEnter
  \/ FinalizeNotify \/ FinalizeSkip \/ FinalizeShutdown
  \/ RunInitialize \/ RunBegin \/ RunStatement \/ RunEnd
  \/ RunFlushErr \/ RunFlushOut
  \/ MainScan \/ MainArgs \/ MainDecodeFailure \/ MainPyMain

\* The lifecycle, the scripts and the observers.
Next ==
  \/ Steps
  \/ CallInitialize \/ CallFinalize \/ CallRunSimpleString \/ CallPyMainPlain
  \/ WriteStdOutCall \/ WriteStdErrCall
  \/ Construct \/ Destroy

Spec == Init /\ [][Next]_vars

\* The lifecycle and the module search path.
NextPaths ==
  \/ Steps
  \/ CallInitialize \/ CallFinalize \/ CallRunSimpleStringPlain \/ CallPyMainPlain
  \/ PrependPythonPath

SpecPaths == Init /\ [][NextPaths]_vars

\* The lifecycle and the command line of PyMain.
NextMain ==
  \/ Steps
  \/ CallInitialize \/ CallFinalize \/ CallRunSimpleStringPlain \/ CallPyMain

SpecMain == Init /\ [][NextMain]_vars

\* The lifecycle, and scripts run with observers whose handlers call
\* RunSimpleString.
NextReentrant ==
  \/ Steps
  \/ CallInitialize \/ CallFinalize \/ CallRunSimpleStringPlain \/ CallPyMainPlain
  \/ Construct
  \/ RunFlushErrReenter \/ RunErrHandlerReturn
  \/ RunFlushOutReenter \/ RunOutHandlerReturn

SpecReentrant == Init /\ [][NextReentrant]_vars

\* The lifecycle and the program name.
NextPrefix ==
  \/ Steps
  \/ CallInitialize \/ CallFinalize \/ CallRunSimpleStringPlain \/ CallPyMainPlain
  \/ SetProgramName

SpecPrefix == Init /\ [][NextPrefix]_vars

\* The lifecycle with observers, for the calls in progress to run to their
\* end: the operations are sequential code on the caller's thread, so a call
\* that has a next block (lines 252-311, 314-323, 384-469, 472-506) executes
\* it; nothing obliges the program to make a further call.
NextLive ==
  \/ Steps
  \/ CallInitialize \/ CallFinalize \/ CallRunSimpleStringPlain \/ CallPyMainPlain
  \/ Construct

SpecLive == Init /\ [][NextLive]_vars /\ WF_vars(Steps)


\* ===================================================================
\* Claims
\* ===================================================================
LogOf(eventid) == SelectSeq(log, LAMBDA e : e.ev = eventid)

NoDuplicates(q) == Cardinality(Range(q)) = Len(q)

RECURSIVE Reverse(_)
Reverse(q) == IF q = <<>> THEN <<>> ELSE Append(Reverse(Tail(q)), Head(q))

SetupSteps == {"threads", "emptyScript", "bind", "paths", "replay", "enter"}

\* C1: however many times Initialize is called (directly, or from
\* RunSimpleString or PyMain), each step of the one-time setup (thread setup,
\* empty script, stream binding, search path setup, replay of the pending
\* paths, Enter notification) runs at most once, and exactly once as soon as
\* a top-level call has finished after Initialize returned; the call that
\* returns true is the first call of the process and every other call
\* returns false.
C1_SetupExactlyOnce ==
  /\ \A f \in SetupSteps : hist[f] <= 1
  /\ hist.initTrue <= 1
  /\ (Idle /\ hist.initReturns >= 1) =>
       /\ \A f \in SetupSteps : hist[f] = 1
       /\ hist.initTrue = 1
  /\ ret.fn = "Initialize" => (ret.val <=> ret.info.n = 1)

\* A second top-level Initialize has returned (false).
C1_Witness ==
  /\ Idle
  /\ ret.fn = "Initialize"
  /\ ~ret.val
  /\ hist.initReturns = 2
  /\ hist.initTrue = 1

\* C2: Py_InitializeEx is invoked at most once in the life of the process,
\* and once Finalize has shut the runtime down nothing starts it again.
C2_StartedAtMostOnce ==
  /\ hist.starts <= 1
  /\ hist.finalizes >= 1 => ~pyInitialized

\* C3: right after the Initialize that returns true, sys.path read left to
\* right is the pending paths in reverse order of registration, followed by
\* what sys.path held before the replay.
C3_ReplayReversed ==
  (ret.fn = "Initialize" /\ ret.val) =>
    sysPath = Reverse(PythonPaths) \o ret.info.present

\* The first Initialize has returned with two different paths pending.
C3_Witness ==
  /\ ret.fn = "Initialize"
  /\ ret.val
  /\ Len(PythonPaths) >= 2
  /\ PythonPaths[1] # PythonPaths[2]
  /\ Len(ret.info.present) >= 1


\* C4: a top-level RunSimpleString whose script writes to stdout through
\* WriteStdOut delivers no SetOutput notification while the call is still
\* running, and by its return exactly one, which carries all the text written
\* in the order it was written and reaches every live observer exactly once.
C4_OneSetOutput ==
  /\ (stack # <<>> /\ stack[1].fn = "RunSimpleString") =>
        LogOf(SetOutputEvent) = <<>>
  /\ (Idle /\ ret.fn = "RunSimpleString" /\ ret.info.out # <<>>) =>
        /\ Len(LogOf(SetOutputEvent)) = 1
        /\ LogOf(SetOutputEvent)[1].data = ret.info.out
        /\ ~LogOf(SetOutputEvent)[1].buffering
        /\ NoDuplicates(LogOf(SetOutputEvent)[1].to)
        /\ Range(LogOf(SetOutputEvent)[1].to) = alive

\* A script wrote "a" and then "b" while two observers were alive.
C4_Witness ==
  /\ Idle
  /\ ret.fn = "RunSimpleString"
  /\ ret.info.out = <<"a", "b">>
  /\ alive = Instances
  /\ Len(LogOf(SetOutputEvent)) = 1

\* C5: when a top-level RunSimpleString returns, Console Buffering is off
\* and both accumulators are empty, and what the script wrote to each
\* accumulator was flushed once: one Error notification with the stderr text
\* when there is any, one SetOutput notification with the stdout text when
\* there is any, and none for an accumulator that stayed empty.
C5_FlushedOnReturn ==
  (Idle /\ ret.fn = "RunSimpleString") =>
    /\ ~ConsoleBuffering
    /\ StdErrBuffer = <<>>
    /\ StdOutBuffer = <<>>
    /\ Len(LogOf(ErrorEvent)) = (IF ret.info.err # <<>> THEN 1 ELSE 0)
    /\ Len(LogOf(SetOutputEvent)) = (IF ret.info.out # <<>> THEN 1 ELSE 0)
    /\ ret.info.err # <<>> => LogOf(ErrorEvent)[1].data = ret.info.err
    /\ ret.info.out # <<>> => LogOf(SetOutputEvent)[1].data = ret.info.out

\* A script that printed and then failed has returned.
C5_Witness ==
  /\ Idle
  /\ ret.fn = "RunSimpleString"
  /\ ret.val = -1
  /\ ret.info.err # <<>>
  /\ ret.info.out # <<>>

\* C6: the registry holds exactly the live instances, each once (the
\* constructor adds the instance, the destructor removes its entry and no
\* other), so every notification reaches every instance alive at the time,
\* once, and no destroyed instance.
C6_OnlyLiveInstancesNotified ==
  /\ Range(GlobalInterpreters) = alive
  /\ NoDuplicates(GlobalInterpreters)
  /\ \A k \in 1..Len(log) :
       /\ Range(log[k].to) = alive
       /\ NoDuplicates(log[k].to)

\* A notification was delivered after an instance was destroyed, while
\* another one was alive.
C6_Witness ==
  /\ hist.destroyed
  /\ log # <<>>
  /\ Cardinality(alive) = 1
  /\ Len(log[1].to) = 1

\* C7: Finalize notifies ExitEvent exactly when the runtime is started at
\* the call, and then while the runtime is still started, before it is shut
\* down; called with the runtime not started it notifies nothing and
\* changes nothing.
C7_ExitIffStarted ==
  (Idle /\ ret.fn = "Finalize") =>
    /\ ret.info.started =>
         /\ Len(log) = 1
         /\ log[1].ev = ExitEvent
         /\ log[1].started
         /\ ~pyInitialized
    /\ ~ret.info.started =>
         /\ log = <<>>
         /\ progVars = ret.info.pre

\* Finalize has shut a started runtime down with an observer alive.
C7_Witness ==
  /\ Idle
  /\ ret.fn = "Finalize"
  /\ ret.info.started
  /\ alive # {}
  /\ Len(log) = 1
  /\ log[1].to # <<>>


\* The PyMain call in progress has finished its verbosity scan.
Scanned == stack # <<>> /\ stack[1].fn = "PyMain" /\ stack[1].pc # "scan"

\* C8: in a build that decodes the command line (Python 3), Py_Main is
\* entered only with a command line that holds no undecodable argument, and
\* a PyMain given an undecodable argument, at whatever position, returns 1
\* without having entered Py_Main.
C8_DecodeFailureReturnsOne ==
  /\ (At("PyMain", "pymain") /\ build.py3) => BadArg \notin Range(Top.arg)
  /\ (ret.fn = "PyMain" /\ build.py3 /\ ret.info.undecodable) =>
       /\ ret.val = 1
       /\ ~ret.info.invoked

\* PyMain has returned from a command line with an undecodable argument.
C8_Witness ==
  /\ Idle
  /\ ret.fn = "PyMain"
  /\ build.py3
  /\ ret.info.undecodable
  /\ ret.val = 1

\* The arguments of the call in progress.
MainArgv == stack[1].arg

\* C9 as stated: after the scan the level is 2 when -vv is present, 1 when
\* -v is present (and -vv is not), and never outside 0..2.
C9_LevelIsOneOrTwo ==
  Scanned =>
    /\ PythonVerboseFlag \in {0, 1, 2}
    /\ "-vv" \in Range(MainArgv) => PythonVerboseFlag = 2
    /\ ("-v" \in Range(MainArgv) /\ "-vv" \notin Range(MainArgv)) =>
         PythonVerboseFlag = 1

\* The position of the last -vv of a command line, 0 when there is none.
LastVV(argv) ==
  LET at == {i \in 1..Len(argv) : argv[i] = "-vv"}
  IN IF at = {} THEN 0 ELSE CHOOSE i \in at : \A j \in at : j <= i

\* C9 amended: after the scan the level is the number of -v flags that
\* follow the last -vv, plus 2 when a -vv is present (each -v adds one, each
\* -vv sets the level to 2): 0 without flags, 1 for a single -v, 2 for a
\* single -vv, and more than 2 when -v follows -vv or is given three times.
C9_LevelCountsFlags ==
  Scanned =>
    PythonVerboseFlag =
      (IF LastVV(MainArgv) = 0 THEN 0 ELSE 2)
        + Cardinality({i \in 1..Len(MainArgv) :
                         i > LastVV(MainArgv) /\ MainArgv[i] = "-v"})

\* A scan has left the level above 2.
C9_Witness == Scanned /\ PythonVerboseFlag = 3

\* An argument as Py_Main receives it: a wide copy in Python 3 builds, the
\* argument itself in Python 2 builds.
Native(a) == IF build.py3 THEN <<"L", a>> ELSE a

NativeAll(args) == [i \in 1..Len(args) |-> Native(args[i])]

\* C10 as stated: Py_Main receives the command line without -v, -vv and
\* --enable-bt, everything else in its order.
C10_FlagsStripped ==
  At("PyMain", "pymain") =>
    Top.loc = NativeAll(SelectSeq(Top.arg,
                LAMBDA a : a \notin {"-v", "-vv", "--enable-bt"}))

\* C10 amended: Py_Main receives the command line without --enable-bt only;
\* -v, -vv, -V and every other argument are handed over in their order (as
\* wide copies in Python 3 builds).
C10_OnlyEnableBtStripped ==
  At("PyMain", "pymain") =>
    Top.loc = NativeAll(SelectSeq(Top.arg, LAMBDA a : a # "--enable-bt"))

\* Py_Main is about to run for a command line with --enable-bt and -v.
C10_Witness ==
  /\ At("PyMain", "pymain")
  /\ "--enable-bt" \in Range(Top.arg)
  /\ "-v" \in Range(Top.arg)
  /\ Len(Top.loc) = 2

\* The first n components of the directory the walk starts from.
Ancestor(n) == SubSeq(PrefixComponents, 1, n)

\* The depths at which <ancestor>/<site-packages> holds the landmark file.
LandmarkDepths(landmarks) ==
  {n \in 1..Len(PrefixComponents) : PathToCheck(Ancestor(n)) \in landmarks}

\* C11: SetupVTKPythonPaths tests the ancestors of the starting directory from
\* the deepest upward, one component at a time; it prepends exactly one
\* directory, <ancestor>/<site-packages> of the deepest ancestor that holds
\* the landmark, and tests nothing above it; when no ancestor holds the
\* landmark every ancestor was tested and the search path is unchanged.
C11_DeepestLandmarkWins ==
  At("Initialize", "replay") =>
    LET l == Top.loc
        depth == Len(PrefixComponents)
        hits == LandmarkDepths(l.landmarks)
        first == CHOOSE n \in hits : \A m \in hits : m <= n
    IN IF hits = {}
       THEN /\ sysPath = l.before
            /\ l.tested = [i \in 1..depth |-> PathToCheck(Ancestor(depth - i + 1))]
       ELSE /\ sysPath = <<PathToCheck(Ancestor(first))>> \o l.before
            /\ l.tested = [i \in 1..(depth - first + 1) |->
                             PathToCheck(Ancestor(depth - i + 1))]

\* The landmark was missing at the starting directory, found one level up,
\* and also present higher up, where the walk did not look.
C11_Witness ==
  /\ At("Initialize", "replay")
  /\ Cardinality(Top.loc.landmarks) = 2
  /\ Len(Top.loc.tested) = 2
  /\ Len(sysPath) = Len(Top.loc.before) + 1

IsPrefix(p, q) == Len(p) <= Len(q) /\ SubSeq(q, 1, Len(p)) = p

ScriptWrites(toStdOut) ==
  /\ At("RunSimpleString", "exec")
  /\ Top.loc.ip <= Len(Top.loc.buffer)
  /\ stdStreams
  /\ Prints(Top.loc.buffer[Top.loc.ip]) <=> toStdOut

\* The text a script statement writes.
ScriptText == IF Prints(Top.loc.buffer[Top.loc.ip])
              THEN <<Top.loc.buffer[Top.loc.ip]>> ELSE Traceback

\* The step is a direct call of WriteStdOut or WriteStdErr.
DirectWrite(fn) == Idle /\ stack' = <<>> /\ ret'.fn = fn

\* What a write of `txt` must do to its own accumulator `own`, the other
\* accumulator `other` and the log, of which `base` was there before.
WriteEffect(txt, eventid, own, ownNext, other, otherNext, base) ==
  /\ otherNext = other
  /\ ConsoleBuffering =>
       /\ ownNext = own \o txt
       /\ log' = base
  /\ ~ConsoleBuffering =>
       /\ ownNext = own
       /\ Len(log') = Len(base) + 1
       /\ SubSeq(log', 1, Len(base)) = base
       /\ log'[Len(log')].ev = eventid
       /\ log'[Len(log')].data = txt
       /\ log'[Len(log')].to = Receivers(GlobalInterpreters)

\* C13: a write through WriteStdOut (WriteStdErr), from a script or from a
\* direct caller, while Console Buffering is on appends the text to
\* StdOutBuffer (StdErrBuffer), leaves the other accumulator alone and
\* notifies nobody; while Console Buffering is off it leaves both
\* accumulators alone and delivers the text in exactly one SetOutput (Error)
\* notification.
C13_WriteBuffersOrNotifies ==
  [][/\ ScriptWrites(TRUE) =>
          WriteEffect(ScriptText, SetOutputEvent, StdOutBuffer, StdOutBuffer',
                      StdErrBuffer, StdErrBuffer', log)
     /\ ScriptWrites(FALSE) =>
          WriteEffect(ScriptText, ErrorEvent, StdErrBuffer, StdErrBuffer',
                      StdOutBuffer, StdOutBuffer', log)
     /\ DirectWrite("WriteStdOut") =>
          WriteEffect(ret'.info.txt, SetOutputEvent, StdOutBuffer, StdOutBuffer',
                      StdErrBuffer, StdErrBuffer', <<>>)
     /\ DirectWrite("WriteStdErr") =>
          WriteEffect(ret'.info.txt, ErrorEvent, StdErrBuffer, StdErrBuffer',
                      StdOutBuffer, StdOutBuffer', <<>>)]_vars

\* A script has written to both accumulators under Console Buffering and no
\* observer has heard of it yet.
C13_Witness ==
  /\ At("RunSimpleString", "exec")
  /\ ConsoleBuffering
  /\ StdOutBuffer = <<"a">>
  /\ StdErrBuffer = Traceback
  /\ LogOf(SetOutputEvent) = <<>>
  /\ LogOf(ErrorEvent) = <<>>
  /\ alive # {}

\* C14: the steps of the first-time Initialize happen in the order
\* runtime-home setup, runtime startup, (empty script,) stream binding,
\* search path setup, replay of the pending paths, Enter notification: no
\* step has run before its predecessor, and at the moment Enter is delivered
\* every other step has run, the runtime is started, the streams are the
\* capture helpers and every pending path is in sys.path.
C14_SetupOrder ==
  /\ hist.starts >= 1 => hist.prefix >= 1
  /\ hist.emptyScript = 1 => hist.starts >= 1
  /\ hist.bind = 1 => hist.emptyScript = 1
  /\ hist.paths = 1 => hist.bind = 1
  /\ hist.replay = 1 => hist.paths = 1
  /\ hist.enter = 1 => hist.replay = 1
  /\ At("Initialize", "enter") =>
       /\ hist.enter = 0
       /\ pyInitialized
       /\ stdStreams
       /\ Range(PythonPaths) \subseteq Range(sysPath)
  /\ \A k \in 1..Len(log) :
       log[k].ev = EnterEvent => (log[k].started /\ hist.enter = 1)

\* Enter is about to be delivered with two paths registered before startup.
C14_Witness ==
  /\ At("Initialize", "enter")
  /\ Len(PythonPaths) = 2
  /\ hist.enter = 0
  /\ hist.replay = 1

\* The program name as a narrow string.
NarrowProgramName(name) == IF build.py3 THEN Tail(name) ELSE name

\* C17: the SetupPythonPrefix step of Initialize changes nothing but the
\* program name, and the program name only when PYTHONHOME is not set, the
\* runtime library was found and the program name is still "python"; the
\* new name is then the directory of the runtime library, the path separator
\* and "vtkpython".
C17_PrefixOnlyWhenDefault ==
  [][(At("Initialize", "start") /\ ~pyInitialized) =>
       LET l == stack'[Len(stack')].loc
           changes == /\ ~l.home
                      /\ l.pythonlib # <<>>
                      /\ NarrowProgramName(programName) = <<"python">>
       IN /\ UNCHANGED <<pyInitialized, InitializedOnce, ConsoleBuffering,
                         StdErrBuffer, StdOutBuffer, PythonVerboseFlag,
                         GlobalInterpreters, PythonPaths, sysPath, stdStreams,
                         stackTraceOnError, alive, log>>
          /\ ~changes => programName' = programName
          /\ changes =>
               \E n \in 1..Len(l.pythonlib) :
                 /\ l.pythonlib[n] = "/"
                 /\ \A m \in (n + 1)..Len(l.pythonlib) : l.pythonlib[m] # "/"
                 /\ NarrowProgramName(programName') =
                      SubSeq(l.pythonlib, 1, n - 1)
                        \o <<VTK_PATH_SEPARATOR, "vtkpython">>]_vars

\* SetupPythonPrefix has just replaced the default program name.
C17_Witness ==
  /\ At("Initialize", "startup")
  /\ ~Top.loc.home
  /\ Top.loc.pythonlib # <<>>
  /\ NarrowProgramName(programName) =
       <<"opt", "/", "lib", VTK_PATH_SEPARATOR, "vtkpython">>
  /\ hist.starts = 0

\* The top-level RunSimpleString call has built the text for the runtime.
ScriptBuilt ==
  /\ stack # <<>>
  /\ stack[1].fn = "RunSimpleString"
  /\ stack[1].pc \notin {"init", "begin"}

\* C18: the text RunSimpleString hands to the runtime is the script without
\* its carriage returns, every other character kept in its place in the
\* order; a null script is handed over as the empty text.
C18_CarriageReturnsStripped ==
  ScriptBuilt =>
    LET script == stack[1].arg
        buffer == stack[1].loc.buffer
    IN IF script = NullStr
       THEN buffer = <<>>
       ELSE /\ CR \notin Range(buffer)
            /\ buffer = SelectSeq(script, LAMBDA c : c # CR)

\* A script with a carriage return before a statement is being run.
C18_Witness ==
  /\ ScriptBuilt
  /\ stack[1].arg = <<CR, "a">>
  /\ stack[1].loc.buffer = <<"a">>

\* How often d occurs in q.
Count(q, d) == Cardinality({i \in 1..Len(q) : q[i] = d})

\* C19: with PrependPythonPath and Initialize (direct, or from
\* RunSimpleString and PyMain) interleaved in any order, sys.path never holds
\* a registered directory more often than it was registered, and once the
\* runtime is started and the replay has run it holds each registered
\* directory exactly as often as it was registered: each registration is
\* inserted once, by the replay or by PrependPythonPath itself, never by
\* both and never by neither.
C19_EachPathInsertedOnce ==
  /\ \A d \in Range(PythonPaths) : Count(sysPath, d) <= Count(PythonPaths, d)
  /\ (pyInitialized /\ hist.replay = 1 /\ hist.finalizes = 0) =>
       \A d \in Range(PythonPaths) : Count(sysPath, d) = Count(PythonPaths, d)

\* The same directory was registered twice and the runtime is started.
C19_Witness ==
  /\ Idle
  /\ pyInitialized
  /\ hist.finalizes = 0
  /\ Len(PythonPaths) = 2
  /\ PythonPaths[1] = PythonPaths[2]
  /\ Count(sysPath, PythonPaths[1]) = 2

RECURSIVE SumLen(_)
SumLen(texts) == IF texts = <<>> THEN 0 ELSE Len(Head(texts)) + SumLen(Tail(texts))

\* The number of characters delivered in notifications of an event since the
\* top-level call began.
DeliveredLen(eventid) ==
  SumLen([k \in 1..Len(LogOf(eventid)) |-> LogOf(eventid)[k].data])

\* The RunSimpleString frames whose script has begun.
Running ==
  SelectSeq(stack, LAMBDA f :
    f.fn = "RunSimpleString" /\ f.pc \notin {"init", "begin"})

\* The number of characters written to a stream since the top-level call
\* began: by the calls in progress, by the nested call that has just
\* returned to a handler, or by the call that has returned.
WrittenLen(stream) ==
  IF Idle THEN Len(ret.info[stream])
  ELSE SumLen([k \in 1..Len(Running) |-> Running[k].loc[stream]])
         + (IF Top.pc \in {"errhandler", "outhandler"}
            THEN Len(ret.info[stream]) ELSE 0)

\* C20: during and after a top-level RunSimpleString, also when a handler
\* of an observer calls RunSimpleString while the outer call is flushing,
\* the text delivered in Error (SetOutput) notifications is never more than
\* the text written to stderr (stdout): no text is delivered twice.
C20_DeliveredAtMostOnce ==
  ((stack # <<>> /\ stack[1].fn = "RunSimpleString")
     \/ (Idle /\ ret.fn = "RunSimpleString")) =>
    /\ DeliveredLen(ErrorEvent) <= WrittenLen("err")
    /\ DeliveredLen(SetOutputEvent) <= WrittenLen("out")

\* The operation that has just returned keeps a record of its scopes.
HasScopes ==
  \/ ret.fn \in {"RunSimpleString", "PyMain", "Finalize", "PrependPythonPath"}
  \/ (ret.fn = "Initialize" /\ ret.val)

\* C15: a script runs only while the scope around it holds the lock, and
\* when an operation returns every acquisition of its scopes has been
\* released exactly once, by the scope or, for the scope around the
\* shutdown, by the shutdown call and then not by the scope; nothing but the
\* shutdown leaves the release to the runtime.
C15_ScopesReleaseExactlyOnce ==
  /\ At("RunSimpleString", "exec") =>
       Top.loc.gil.acquired - Top.loc.gil.released = 1
  /\ HasScopes =>
       /\ ret.info.gil.acquired = ret.info.gil.released + ret.info.gil.byRuntime
       /\ ret.fn # "Finalize" => ret.info.gil.byRuntime = 0
       /\ (ret.fn = "Finalize" /\ ret.info.started) =>
            /\ ret.info.gil.released = 0
            /\ ret.info.gil.byRuntime = 1


\* The positions of the Initialize calls in progress.
InitializeFrames == {k \in 1..Len(stack) : stack[k].fn = "Initialize"}

\* Frame k is a RunSimpleString called by Initialize (line 284).
EmptyScriptRun(k) ==
  /\ k >= 2
  /\ stack[k].fn = "RunSimpleString"
  /\ stack[k - 1].fn = "Initialize"

\* Frame k is the Initialize called by that RunSimpleString (line 474).
NestedInitialize(k) ==
  /\ k >= 3
  /\ stack[k].fn = "Initialize"
  /\ EmptyScriptRun(k - 1)

\* The one-time setup has gone as far as the empty script and no further.
SetupAtEmptyScript ==
  /\ hist.starts = 1
  /\ hist.threads = 1
  /\ hist.emptyScript = 1
  /\ \A f \in {"bind", "paths", "replay", "enter"} : hist[f] = 0

\* The recursion Initialize -> RunSimpleString("") -> Initialize is one level
\* deep: the flag is already set while the empty script is in progress, the
\* nested Initialize only passes the two guards and returns false with no
\* setup step run again, and the empty script has notified nobody, left the
\* buffers empty and left ConsoleBuffering off when it returns.
C21_OneNestedLevel ==
  /\ Cardinality(InitializeFrames) <= 2
  /\ \A k \in 1..Len(stack) :
       /\ EmptyScriptRun(k) =>
            /\ stack[k].arg = <<>>
            /\ stack[k - 1].pc = "bind"
            /\ InitializedOnce
            /\ SetupAtEmptyScript
            /\ ~stdStreams
            /\ log = <<>>
            /\ StdErrBuffer = <<>> /\ StdOutBuffer = <<>>
       /\ NestedInitialize(k) =>
            /\ k = Len(stack)
            /\ stack[k].pc \in {"start", "once"}
            /\ pyInitialized
  /\ (At("RunSimpleString", "begin") /\ EmptyScriptRun(Len(stack))) =>
       /\ ret.fn = "Initialize"
       /\ ~ret.val
  /\ At("Initialize", "bind") =>
       /\ ret.fn = "RunSimpleString"
       /\ ret.val = 0
       /\ SetupAtEmptyScript
       /\ log = <<>>
       /\ StdErrBuffer = <<>> /\ StdOutBuffer = <<>>
       /\ ~ConsoleBuffering

\* C21: the mutual recursion Initialize -> RunSimpleString("") -> Initialize
\* ends after one nested level: InitializedOnce is set before the empty
\* script is run, so the nested Initialize returns false without repeating a
\* setup step, the empty script notifies no observer and leaves
\* ConsoleBuffering off, and every Initialize call in progress eventually
\* returns.
C21_RecursionTerminates ==
  /\ []C21_OneNestedLevel
  /\ (InitializeFrames # {}) ~> (InitializeFrames = {})

\* The empty script of the first Initialize has returned, with an observer
\* registered, after its nested Initialize returned false.
C21_Witness ==
  /\ At("Initialize", "bind")
  /\ ret.fn = "RunSimpleString"
  /\ hist.initReturns >= 1
  /\ alive # {}

====
